---------------------------- MODULE Spec2Model ----------------------------
(***************************************************************************)
(* Contract dashboard: spreadsheet import, row normalization and the       *)
(* derived classification, for both App variants of the repository.        *)
(*                                                                         *)
(* Time is counted in whole hours.  A Date object is a record              *)
(*   [v |-> "valid", day |-> d, hr |-> h]                                  *)
(* where d is the local calendar day (days since 1970-01-01) and h the     *)
(* local hour of that day, or the Invalid Date, or null.  An ISO string    *)
(* (Date.prototype.toISOString) is the same instant written in UTC.        *)
(***************************************************************************)
EXTENDS Integers, Sequences, FiniteSets, TLC

VARIABLES
    variant,        \* 1: App with the inline normalizer, 2: App using readExcelFile
    tzOffset,       \* local time minus UTC, in hours
    engine,         \* how the JS engine reads non-standard date strings
    rows,           \* useState rows
    isLoading,      \* useState isLoading (variant 2)
    error,          \* useState error (variant 2)
    pending,        \* FileReaders that have been started and have not fired yet
    lastSelected,   \* the file of the most recent change event of the file input
    jsonData,       \* sheet rows decoded by the most recent onload
    rawExcelData,   \* useState rawExcelData (variant 1)
    excelHeaders,   \* useState excelHeaders (variant 1)
    nData,          \* normalization run: the decoded sheet handed in
    nClock,         \* normalization run: the clock while it runs
    nOut,           \* normalization run: what came back
    pCell,          \* date parsing: the cell value handed in
    pOut            \* date parsing: what safeParseDate and parseExcelDate returned

vars == <<variant, tzOffset, engine, rows, isLoading, error, pending, jsonData,
          rawExcelData, excelHeaders, nData, nClock, nOut, pCell, pOut, lastSelected>>

(***************************************************************************)
(* Bounds of the model.                                                    *)
(***************************************************************************)
MaxRows == 2        \* rows of a sheet
MaxPending == 2     \* FileReaders in flight at once (variant 1 sets no limit)

(***************************************************************************)
(* JavaScript numbers that are not integers of the model.                  *)
(***************************************************************************)
Infinity == 2147483647
NaN == -2147483647

(***************************************************************************)
(* Calendar: days since 1970-01-01 in the proleptic Gregorian calendar.    *)
(***************************************************************************)
MaxDay == 100000000         \* ECMAScript time range: 8.64e15 ms from the epoch
HoursPerDay == 24

\* The one element of a one-element set.  { e(x) : x \in {v} } computes v once.
Only(S) == CHOOSE x \in S : TRUE

IsLeap(y) == (y % 4 = 0 /\ y % 100 # 0) \/ y % 400 = 0

DaysInMonth(y, m) ==
    IF m = 2 THEN (IF IsLeap(y) THEN 29 ELSE 28)
    ELSE IF m \in {4, 6, 9, 11} THEN 30 ELSE 31

\* Day number of year y, month m0 (0-based, any integer), day d (any integer):
\* ECMAScript MakeDay, which carries months into years and days into months.
MakeDayOf(ya, m, d) ==
    LET era == ya \div 400
        yoe == ya % 400
        mp  == IF m > 2 THEN m - 3 ELSE m + 9
    IN  era * 146097 + yoe * 365 + (yoe \div 4) - (yoe \div 100)
          + ((153 * mp + 2) \div 5) - 719468 + (d - 1)

MakeDay(y, m0, d) ==
    Only({ MakeDayOf(IF m <= 2 THEN y + (m0 \div 12) - 1 ELSE y + (m0 \div 12), m, d) :
           m \in {(m0 % 12) + 1} })

\* Year, month (1-based) and day of month of a day number.
CivilOfDoy(era, yoe, doy) ==
    LET mp == (5 * doy + 2) \div 153
        m  == IF mp < 10 THEN mp + 3 ELSE mp - 9
    IN  [y |-> yoe + era * 400 + (IF m <= 2 THEN 1 ELSE 0),
         m |-> m,
         d |-> doy - ((153 * mp + 2) \div 5) + 1]

CivilOfDoe(era, doe) ==
    Only({ CivilOfDoy(era, yoe, doe - (365 * yoe + (yoe \div 4) - (yoe \div 100))) :
           yoe \in {(doe - (doe \div 1460) + (doe \div 36524) - (doe \div 146096)) \div 365} })

Civil(z) ==
    Only({ CivilOfDoe(era, (z + 719468) - era * 146097) :
           era \in {(z + 719468) \div 146097} })

(***************************************************************************)
(* Date objects.                                                           *)
(***************************************************************************)
NullDate == [v |-> "null", day |-> 0, hr |-> 0]
InvalidDate == [v |-> "invalid", day |-> 0, hr |-> 0]

\* ECMAScript TimeClip: an instant outside the time range is the Invalid Date.
\* day and hr are local; hr may be any integer and is carried into the day.
TimeClip(d, h, tz) ==
    LET ud == d + ((h - tz) \div HoursPerDay)
        uh == (h - tz) % HoursPerDay
    IN  IF (ud >= -MaxDay /\ ud < MaxDay) \/ (ud = MaxDay /\ uh = 0)
        THEN [v |-> "valid", day |-> d, hr |-> h]
        ELSE InvalidDate

LocalDate(day, hr, tz) ==
    Only({ TimeClip(d, hr % HoursPerDay, tz) : d \in {day + (hr \div HoursPerDay)} })

\* new Date(year, monthIndex, day): local midnight; years 0..99 mean 1900..1999.
NewDateYMD(y, m0, d, tz) ==
    LocalDate(MakeDay(IF y >= 0 /\ y <= 99 THEN 1900 + y ELSE y, m0, d), 0, tz)

\* The instant given in UTC, as a local Date.
UTCDate(uday, uhr, tz) == LocalDate(uday, uhr + tz, tz)


\* Date.prototype.toISOString: the instant in UTC; a RangeError for the Invalid Date.
NullISO == [v |-> "null", day |-> 0, hr |-> 0]
ThrownISO == [v |-> "RangeError", day |-> 0, hr |-> 0]

toISOString(date, tz) ==
    IF date.v = "valid"
    THEN [v   |-> "iso",
          day |-> date.day + ((date.hr - tz) \div HoursPerDay),
          hr  |-> (date.hr - tz) % HoursPerDay]
    ELSE ThrownISO

\* date?.toISOString() || null
OptionalISO(date, tz) == IF date.v = "null" THEN NullISO ELSE toISOString(date, tz)

\* -1, 0 or 1 as a is before, at or after b (both valid).
compareAsc(a, b) ==
    IF a.day # b.day THEN (IF a.day < b.day THEN -1 ELSE 1)
    ELSE IF a.hr # b.hr THEN (IF a.hr < b.hr THEN -1 ELSE 1)
    ELSE 0

(***************************************************************************)
(* date-fns.                                                               *)
(***************************************************************************)
isValid(date) == date.v = "valid"

\* Date.prototype.setMonth: a day the target month does not have is carried
\* over into the month after it.
setMonthBy(date, amount, tz) ==
    IF date.v # "valid" \/ amount = NaN \/ amount = Infinity THEN InvalidDate
    ELSE Only({ LocalDate(MakeDay(c.y, (c.m - 1) + amount, c.d), date.hr, tz) :
                c \in {Civil(date.day)} })

\* addMonths: the same day of the month `amount` months on, or the last day
\* of that month when it is shorter; the Invalid Date when the date, the
\* amount or the end of the target month is not representable.
addMonths(date, amount, tz) ==
    IF date.v # "valid" \/ amount = NaN \/ amount = Infinity THEN InvalidDate
    ELSE IF amount = 0 THEN date
    ELSE Only({ Only({
             IF endOf.v # "valid" THEN InvalidDate
             ELSE IF c.d >= Civil(endOf.day).d THEN endOf
             ELSE LocalDate(MakeDay(c.y, (c.m - 1) + amount, c.d), date.hr, tz) :
               endOf \in {LocalDate(MakeDay(c.y, (c.m - 1) + amount + 1, 0), date.hr, tz)} }) :
           c \in {Civil(date.day)} })

\* differenceInCalendarDays: the calendar days between, whatever the hours.
differenceInCalendarDays(dateLeft, dateRight) ==
    IF dateLeft.v # "valid" \/ dateRight.v # "valid" THEN NaN
    ELSE dateLeft.day - dateRight.day

\* differenceInDays: full days from dateRight to dateLeft, rounded towards 0.
differenceInDays(dateLeft, dateRight) ==
    IF dateLeft.v # "valid" \/ dateRight.v # "valid" THEN NaN
    ELSE LET dd == dateLeft.day - dateRight.day
             dh == dateLeft.hr - dateRight.hr
         IN  IF dd > 0 /\ dh < 0 THEN dd - 1
             ELSE IF dd < 0 /\ dh > 0 THEN dd + 1
             ELSE dd

\* differenceInMonths, given the calendar dates cl and cr of the two days and the
\* order of the two instants.
MonthsBetween(dateLeft, dateRight, cl, cr, sign) ==
    LET cal  == (cl.y - cr.y) * 12 + (cl.m - cr.m)
        diff == IF cal < 0 THEN -cal ELSE cal
        lastDayOfMonth == cl.d = DaysInMonth(cl.y, cl.m)
    IN  IF diff < 1 THEN 0
        ELSE Only({
               LET moved == [v   |-> "valid",
                             day |-> MakeDay(l1.y, (l1.m - 1) - sign * diff, l1.d),
                             hr  |-> dateLeft.hr]
                   notFull == /\ compareAsc(moved, dateRight) = -sign
                              /\ ~(lastDayOfMonth /\ diff = 1 /\ sign = 1)
               IN  sign * (diff - (IF notFull THEN 1 ELSE 0)) :
               \* a date at the end of February is moved into March first
               l1 \in {IF cl.m = 2 /\ cl.d > 27 THEN Civil(MakeDay(cl.y, 1, 30)) ELSE cl} })

\* differenceInMonths: full months from dateRight to dateLeft, rounded towards 0.
differenceInMonths(dateLeft, dateRight) ==
    IF dateLeft.v # "valid" \/ dateRight.v # "valid" THEN NaN
    ELSE Only({ MonthsBetween(dateLeft, dateRight, cl, cr, compareAsc(dateLeft, dateRight)) :
                cl \in {Civil(dateLeft.day)}, cr \in {Civil(dateRight.day)} })

(***************************************************************************)
(* Cell values of a decoded sheet (XLSX.utils.sheet_to_json).              *)
(*   k = "missing"  no such key in the row                                 *)
(*   k = "num"      a number: the integer a, or +Infinity                  *)
(*   k = "bool"     true (a = 1) or false (a = 0)                          *)
(*   k = "date"     a Date object: valid with local day a, or invalid      *)
(*   k = "str"      a string, by its shape f:                              *)
(*       "iso"    dddd-dd-dd     the digit groups a, b, c                  *)
(*       "dot"    dd.dd.dddd     the digit groups a, b, c                  *)
(*       "slash"  dd/dd/dddd     the digit groups a, b, c                  *)
(*       "yslash" dddd/dd/dd     the digit groups a, b, c                  *)
(*       "isoT"   dddd-dd-ddT00:00:00Z   the digit groups a, b, c          *)
(*       "digits" a decimal integer a                                      *)
(*       "digitsword"  a decimal integer a followed by a word              *)
(*       "word"   the text s, no digits in it                              *)
(*       "blank"  white space only                                         *)
(*       "empty"  the empty string                                         *)
(***************************************************************************)
Missing == [k |-> "missing", f |-> "", a |-> 0, b |-> 0, c |-> 0, s |-> ""]
Num(n) == [k |-> "num", f |-> "", a |-> n, b |-> 0, c |-> 0, s |-> ""]
Bool(t) == [k |-> "bool", f |-> "", a |-> IF t THEN 1 ELSE 0, b |-> 0, c |-> 0, s |-> ""]
DateCell(ok, day) ==
    [k |-> "date", f |-> IF ok THEN "valid" ELSE "invalid", a |-> day, b |-> 0, c |-> 0, s |-> ""]
Str3(shape, a, b, c) == [k |-> "str", f |-> shape, a |-> a, b |-> b, c |-> c, s |-> ""]
Digits(n) == [k |-> "str", f |-> "digits", a |-> n, b |-> 0, c |-> 0, s |-> ""]
DigitsWord(n) == [k |-> "str", f |-> "digitsword", a |-> n, b |-> 0, c |-> 0, s |-> ""]
Word(w) == [k |-> "str", f |-> "word", a |-> 0, b |-> 0, c |-> 0, s |-> w]
Blank == [k |-> "str", f |-> "blank", a |-> 0, b |-> 0, c |-> 0, s |-> ""]
Empty == [k |-> "str", f |-> "empty", a |-> 0, b |-> 0, c |-> 0, s |-> ""]

\* JavaScript truthiness of a cell value.
Truthy(cell) ==
    CASE cell.k = "missing" -> FALSE
      [] cell.k = "num"     -> cell.a # 0
      [] cell.k = "bool"    -> cell.a = 1
      [] cell.k = "date"    -> TRUE
      [] cell.k = "str"     -> cell.f # "empty"

\* A month 1..12 and a day that exists in it.
RealDate(y, m, d) == m >= 1 /\ m <= 12 /\ d >= 1 /\ d <= DaysInMonth(y, m)


(***************************************************************************)
(* new Date(string) of the engine.  ECMAScript fixes the outcome for       *)
(* well-formed ISO strings with real calendar dates; for a day of 29..31   *)
(* that the month does not have, and for the dotted layout, engines        *)
(* differ: a "lenient" engine carries the days over into the next month    *)
(* and reads dd.dd.dddd as month.day.year, a "strict" one gives the        *)
(* Invalid Date.  Strings of digits only are not covered: they are no      *)
(* input of the model for a date cell.                                     *)
(***************************************************************************)
Engines == {"lenient", "strict"}

InDayRange(m, d) == m >= 1 /\ m <= 12 /\ d >= 1 /\ d <= 31

\* new Date("dddd-dd-dd") and new Date("dddd-dd-ddT00:00:00Z"): UTC midnight.
NativeISOUTC(y, m, d, eng, tz) ==
    IF RealDate(y, m, d) \/ (InDayRange(m, d) /\ eng = "lenient")
    THEN UTCDate(MakeDay(y, m - 1, d), 0, tz)
    ELSE InvalidDate

\* new Date("dddd-dd-ddT00:00:00"): local midnight.
NativeISOLocal(y, m, d, eng, tz) ==
    IF RealDate(y, m, d) \/ (InDayRange(m, d) /\ eng = "lenient")
    THEN LocalDate(MakeDay(y, m - 1, d), 0, tz)
    ELSE InvalidDate

NativeParse(cell, eng, tz) ==
    CASE cell.f \in {"iso", "isoT"} -> NativeISOUTC(cell.a, cell.b, cell.c, eng, tz)
      [] cell.f = "dot" ->
            IF eng = "lenient" /\ InDayRange(cell.a, cell.b)
            THEN NewDateYMD(cell.c, cell.a - 1, cell.b, tz) ELSE InvalidDate
      [] cell.f = "slash" ->
            IF InDayRange(cell.a, cell.b)
            THEN NewDateYMD(cell.c, cell.a - 1, cell.b, tz) ELSE InvalidDate
      [] cell.f = "yslash" ->
            IF InDayRange(cell.b, cell.c)
            THEN NewDateYMD(cell.a, cell.b - 1, cell.c, tz) ELSE InvalidDate
      [] OTHER -> InvalidDate

(***************************************************************************)
(* date-fns parseISO and parse(string, format, new Date()).                *)
(***************************************************************************)
parseISO(cell, tz) ==
    IF cell.f = "isoT" /\ RealDate(cell.a, cell.b, cell.c)
    THEN UTCDate(MakeDay(cell.a, cell.b - 1, cell.c), 0, tz)
    ELSE InvalidDate

\* Local midnight of the day written, when the string has the format's shape
\* and the month and the day exist; otherwise the Invalid Date.
parse(cell, format, tz) ==
    LET at(y, m, d) == IF RealDate(y, m, d) THEN LocalDate(MakeDay(y, m - 1, d), 0, tz)
                       ELSE InvalidDate
    IN  CASE format = "yyyy-MM-dd" /\ cell.f = "iso"    -> at(cell.a, cell.b, cell.c)
          [] format = "dd.MM.yyyy" /\ cell.f = "dot"    -> at(cell.c, cell.b, cell.a)
          [] format = "MM/dd/yyyy" /\ cell.f = "slash"  -> at(cell.c, cell.a, cell.b)
          [] format = "dd/MM/yyyy" /\ cell.f = "slash"  -> at(cell.c, cell.b, cell.a)
          [] format = "yyyy/MM/dd" /\ cell.f = "yslash" -> at(cell.a, cell.b, cell.c)
          [] OTHER -> InvalidDate

(***************************************************************************)
(* dateUtils: safeParseDate, isValidDate.                                  *)
(***************************************************************************)
MsPerHour == 3600000

formats ==
    << "yyyy-MM-dd", "dd.MM.yyyy", "MM/dd/yyyy", "dd/MM/yyyy", "yyyy/MM/dd",
       "yyyy-MM-dd HH:mm:ss", "dd.MM.yyyy HH:mm:ss" >>

\* The result of the first format of the list, from position i on, that parses.
RECURSIVE FirstFormat(_, _, _)
FirstFormat(cell, i, tz) ==
    IF i > Len(formats) THEN InvalidDate
    ELSE Only({ IF isValid(parsed) THEN parsed ELSE FirstFormat(cell, i + 1, tz) :
                parsed \in {parse(cell, formats[i], tz)} })

isValidDate(date) == date.v # "null" /\ isValid(date)

OrNullUnchecked(date) == date

\* isValid(date) ? date : null
OrNull(date) == Only({ IF isValid(d) THEN d ELSE NullDate : d \in {date} })

safeParseDate(dateInput, eng, tz) ==
    IF ~Truthy(dateInput) THEN NullDate
    ELSE CASE dateInput.k = "date" ->
                IF dateInput.f = "valid" THEN [v |-> "valid", day |-> dateInput.a, hr |-> 0]
                ELSE NullDate
           [] dateInput.k = "num" ->
                \* new Date(milliseconds since the epoch)
                IF dateInput.a = Infinity THEN NullDate
                ELSE OrNull(UTCDate(0, dateInput.a \div MsPerHour, tz))
           [] dateInput.k = "str" ->
                IF dateInput.f = "blank" THEN NullDate
                ELSE Only({
                       IF dateInput.f = "isoT" /\ isValid(isoDate) THEN isoDate
                       ELSE IF isValid(parsed) THEN parsed
                       ELSE OrNull(NativeParse(dateInput, eng, tz)) :
                         isoDate \in {parseISO(dateInput, tz)},
                         parsed \in {FirstFormat(dateInput, 1, tz)} })
           [] OTHER -> NullDate

(***************************************************************************)
(* excelUtils: parseExcelDate.                                             *)
(***************************************************************************)
parseExcelDate(dateValue, eng, tz) ==
    IF ~Truthy(dateValue) THEN NullDate
    ELSE CASE dateValue.k = "date" ->
                IF dateValue.f = "valid" THEN [v |-> "valid", day |-> dateValue.a, hr |-> 0]
                ELSE NullDate
           [] dateValue.k = "num" ->
                \* new Date(1900, 0, 1) plus (dateValue - 1) days
                IF dateValue.a = Infinity THEN NullDate
                ELSE OrNull(LocalDate(NewDateYMD(1900, 0, 1, tz).day + (dateValue.a - 1), 0, tz))
           [] dateValue.k = "str" ->
                IF dateValue.f = "blank" THEN NullDate
                ELSE IF dateValue.f = "iso"
                     THEN OrNull(NativeISOLocal(dateValue.a, dateValue.b, dateValue.c, eng, tz))
                ELSE IF dateValue.f = "dot"
                     THEN OrNull(NewDateYMD(dateValue.c, dateValue.b - 1, dateValue.a, tz))
                ELSE IF dateValue.f = "slash"
                     THEN OrNull(NewDateYMD(dateValue.c, dateValue.a - 1, dateValue.b, tz))
                ELSE OrNull(NativeParse(dateValue, eng, tz))
           [] OTHER -> NullDate


(***************************************************************************)
(* Number coercions of a cell.                                             *)
(***************************************************************************)
\* parseInt(string): the leading decimal integer, NaN when there is none.
parseInt(cell) ==
    IF cell.f \in {"digits", "digitsword", "iso", "isoT", "dot", "slash", "yslash"}
    THEN cell.a ELSE NaN

\* Number(value); Name, Status and duration cells of the model are no Dates.
Number(cell) ==
    CASE cell.k = "missing" -> NaN
      [] cell.k = "num"     -> cell.a
      [] cell.k = "bool"    -> cell.a
      [] cell.k = "str"     ->
            IF cell.f = "digits" THEN cell.a
            ELSE IF cell.f \in {"empty", "blank"} THEN 0 ELSE NaN
      [] OTHER -> NaN

\* n || 0
OrZero(n) == IF n = NaN THEN 0 ELSE n

\* value || fallback, for a cell that is a string or missing
TextOr(cell, fallback) == IF Truthy(cell) THEN cell.s ELSE fallback

(***************************************************************************)
(* The clock.  new Date() is read while a sheet is normalized; the clock   *)
(* may move on by one hour between two reads: reads after the first        *)
(* tickAt ones see the later hour.                                         *)
(***************************************************************************)
ReadClock(clock, n, tz) ==
    IF n > clock.tickAt THEN LocalDate(clock.now.day, clock.now.hr + 1, tz)
    ELSE clock.now

\* The n-th record's reads: restDays first, abgelaufeneMonate second.
RestRead(index) == 2 * index + 1
ElapsedRead(index) == 2 * index + 2

(***************************************************************************)
(* Normalization.  A record, or Raised when building it throws.            *)
(***************************************************************************)
Raised == [ok |-> FALSE, recs |-> << >>]

MaxOf(a, b) == IF a >= b THEN a ELSE b

RowIdZeroBased(index) == index

RowId(index) == index + 1

\* excelUtils.processExcelData, one row (index is 0-based)
DurationMonths2(cell) ==
    IF cell.k = "str" THEN OrZero(parseInt(cell)) ELSE OrZero(Number(cell))

EndDate2(startDate, durationMonths, tz) ==
    IF startDate.v # "null" THEN addMonths(startDate, durationMonths, tz) ELSE NullDate

RestDays2Unguarded(endDate, now) == differenceInDays(endDate, now)

RestDays2(endDate, now) ==
    IF endDate.v # "null" THEN differenceInDays(endDate, now) ELSE 0

ElapsedMonths2(startDate, now) ==
    IF startDate.v # "null" THEN MaxOf(0, differenceInMonths(now, startDate)) ELSE 0

EndDateStringGuarded(endDate, tz) ==
    IF isValid(endDate) THEN toISOString(endDate, tz) ELSE NullISO

\* endDate?.toISOString() || null
EndDateString(endDate, tz) == OptionalISO(endDate, tz)

ProcessRow2(item, index, clock, eng, tz) ==
    Only({ Only({
        [id                |-> RowId(index),
         name              |-> TextOr(item.Name, "Unbenannt"),
         status            |-> TextOr(item.Status, "online"),
         startDate         |-> OptionalISO(startDate, tz),
         endDate           |-> EndDateString(endDate, tz),
         restDays          |-> RestDays2(endDate, ReadClock(clock, RestRead(index), tz)),
         laufzeit          |-> durationMonths,
         abgelaufeneMonate |-> ElapsedMonths2(startDate, ReadClock(clock, ElapsedRead(index), tz))] :
          endDate \in {EndDate2(startDate, durationMonths, tz)} }) :
      startDate \in {parseExcelDate(item.Startdatum, eng, tz)},
      durationMonths \in {DurationMonths2(item.Laufzeit)} })

\* App (variant 1) handleImportExcel, the data.map callback, one row
DurationMonths1(cell) == OrZero(Number(cell))

EndDate1(startDate, durationMonths, tz) ==
    IF startDate.v # "null" /\ isValidDate(startDate)
    THEN addMonths(startDate, durationMonths, tz) ELSE NullDate

RestDays1(endDate, now) ==
    IF endDate.v # "null" /\ isValidDate(endDate) THEN differenceInDays(endDate, now) ELSE 0

ElapsedMonths1(startDate, now) ==
    IF startDate.v # "null" /\ isValidDate(startDate)
    THEN differenceInMonths(now, startDate) ELSE 0

ProcessRow1(item, index, clock, eng, tz) ==
    Only({ Only({
        [id                |-> RowId(index),
         name              |-> TextOr(item.Name, "Unbenannt"),
         status            |-> TextOr(item.Status, "online"),
         startDate         |-> OptionalISO(startDate, tz),
         endDate           |-> EndDateString(endDate, tz),
         restDays          |-> RestDays1(endDate, ReadClock(clock, RestRead(index), tz)),
         laufzeit          |-> durationMonths,
         abgelaufeneMonate |-> ElapsedMonths1(startDate, ReadClock(clock, ElapsedRead(index), tz))] :
          endDate \in {EndDate1(startDate, durationMonths, tz)} }) :
      startDate \in {safeParseDate(item.Startdatum, eng, tz)},
      durationMonths \in {DurationMonths1(item.Laufzeit)} })

RowThrows(rec) == rec.startDate = ThrownISO \/ rec.endDate = ThrownISO

\* excelUtils.processExcelData: data.map over the rows
MapResult(recs) ==
    IF \E i \in 1..Len(recs) : RowThrows(recs[i]) THEN Raised
    ELSE [ok |-> TRUE, recs |-> recs]

processExcelData(data, clock, eng, tz) ==
    Only({ MapResult(recs) :
           recs \in {[i \in 1..Len(data) |-> ProcessRow2(data[i], i - 1, clock, eng, tz)]} })

\* App (variant 1): const formatted = data.map(...)
formatted(data, clock, eng, tz) ==
    Only({ MapResult(recs) :
           recs \in {[i \in 1..Len(data) |-> ProcessRow1(data[i], i - 1, clock, eng, tz)]} })

Normalize(v, data, clock, eng, tz) ==
    IF v = 1 THEN formatted(data, clock, eng, tz) ELSE processExcelData(data, clock, eng, tz)


(***************************************************************************)
(* Inputs of the model.                                                    *)
(***************************************************************************)
Day(y, m, d) == MakeDay(y, m - 1, d)

Row(name, status, start, months) ==
    [Name |-> name, Status |-> status, Startdatum |-> start, Laufzeit |-> months]

\* Rows that cover the cell values a sheet can hold, against a clock of
\* 2024-05-31 23:00 or 2024-06-01 00:00.
RowSet ==
    { Row(Word("Zoom Pro"), Word("online"), Str3("iso", 2024, 3, 1), Num(12)),
      Row(Missing, Missing, Word("not-a-date"), Missing),
      Row(Word("A"), Word("offline"), Str3("dot", 1, 6, 2023), Num(12)),
      Row(Word("B"), Word("online"), Str3("slash", 5, 4, 2024), Num(1)),
      Row(Word("C"), Word("online"), Str3("iso", 2023, 1, 15), Num(6)),
      Row(Word("D"), Word("offline"), Str3("iso", 2024, 1, 31), Num(1)),
      Row(Word("E"), Empty, Str3("iso", 2025, 1, 1), Digits(12)),
      Row(Word("F"), Word("online"), Num(45352), Num(-5)),
      Row(Word("G"), Word("online"), Str3("iso", 2024, 3, 1), Num(4000000)),
      Row(Word("H"), Word("online"), Str3("isoT", 2024, 3, 1), Num(Infinity)),
      Row(Word("I"), Word("online"), Str3("slash", 13, 4, 2024), DigitsWord(12)),
      Row(Empty, Word("offline"), Str3("iso", 2024, 2, 31), Bool(TRUE)),
      Row(Word("K"), Word("online"), Blank, Num(Infinity)),
      Row(Word("L"), Word("online"), Str3("dot", 31, 2, 2024), Word("zwölf")),
      Row(Word("M"), Word("online"), Str3("iso", 2024, 3, 1), Num(1)) }

Sheets == UNION { [1..n -> RowSet] : n \in 0..MaxRows }

TZSet == {-5, 0, 2}

NowSet == { [v |-> "valid", day |-> Day(2024, 5, 31), hr |-> 23],
            [v |-> "valid", day |-> Day(2024, 6, 1), hr |-> 0] }

Clocks == { [now |-> n, tickAt |-> k] : n \in NowSet, k \in 0..(2 * MaxRows) }

(***************************************************************************)
(* The App's state after construction.                                     *)
(***************************************************************************)
NotRun == [done |-> FALSE, ok |-> FALSE, recs |-> << >>]

\* e.target.files[0] before any file was chosen
NoFile == [name |-> "", readable |-> FALSE, decodes |-> FALSE, sheet |-> << >>]

AppInit ==
    /\ lastSelected = NoFile
    /\ rows = << >>
    /\ isLoading = FALSE
    /\ error = "null"
    /\ pending = << >>
    /\ jsonData = << >>
    /\ rawExcelData = << >>
    /\ excelHeaders = << >>

appVars == <<rows, isLoading, error, pending, lastSelected, jsonData, rawExcelData,
             excelHeaders>>
envVars == <<variant, tzOffset, engine>>
normVars == <<nData, nClock, nOut>>
parseVars == <<pCell, pOut>>

\* No date parser has run yet.
NotParsed == [v |-> "none", day |-> 0, hr |-> 0]
ParseInit == pCell = Missing /\ pOut = [safe |-> NotParsed, excel |-> NotParsed]

(***************************************************************************)
(* Normalization of one decoded sheet, on its own.                         *)
(***************************************************************************)
InitNorm ==
    /\ variant \in {1, 2}
    /\ tzOffset \in TZSet
    /\ engine \in Engines
    /\ nData \in Sheets
    /\ nClock \in Clocks
    /\ nOut = NotRun
    /\ AppInit
    /\ ParseInit

RunFormatted ==
    /\ variant = 1
    /\ ~nOut.done
    /\ nOut' = [done |-> TRUE] @@ formatted(nData, nClock, engine, tzOffset)
    /\ UNCHANGED <<parseVars, envVars, appVars, nData, nClock>>

RunProcessExcelData ==
    /\ variant = 2
    /\ ~nOut.done
    /\ nOut' = [done |-> TRUE] @@ processExcelData(nData, nClock, engine, tzOffset)
    /\ UNCHANGED <<parseVars, envVars, appVars, nData, nClock>>

NextNorm == RunFormatted \/ RunProcessExcelData

SpecNorm == InitNorm /\ [][NextNorm]_vars


(***************************************************************************)
(* The two date parsers on one cell value, on their own.                   *)
(***************************************************************************)
\* Cell values of every kind a sheet can hold in a date column.
CellSet ==
    { Missing, Empty, Blank, Word("not-a-date"), Bool(TRUE), Bool(FALSE),
      Num(0), Num(1), Num(59), Num(61), Num(45352), Num(-1), Num(Infinity),
      DateCell(TRUE, Day(2024, 3, 1)), DateCell(FALSE, 0),
      Str3("iso", 2024, 3, 1), Str3("iso", 2024, 2, 29), Str3("iso", 2023, 12, 31),
      Str3("iso", 2024, 2, 31), Str3("iso", 2024, 13, 1), Str3("iso", 2024, 1, 1),
      Str3("isoT", 2024, 3, 1), Str3("isoT", 2024, 2, 30),
      Str3("dot", 1, 6, 2023), Str3("dot", 31, 2, 2024), Str3("dot", 6, 13, 2023),
      Str3("slash", 5, 4, 2024), Str3("slash", 13, 4, 2024), Str3("slash", 4, 13, 2024),
      Str3("slash", 2, 31, 2024), Str3("slash", 13, 13, 2024),
      Str3("yslash", 2024, 3, 1), Str3("yslash", 2024, 2, 31) }

InitParse ==
    /\ variant \in {1, 2}
    /\ tzOffset \in TZSet
    /\ engine \in Engines
    /\ AppInit
    /\ nData = << >>
    /\ nClock = [now |-> NullDate, tickAt |-> 0]
    /\ nOut = NotRun
    /\ pCell \in CellSet
    /\ pOut = [safe |-> NotParsed, excel |-> NotParsed]

RunSafeParseDate ==
    /\ pOut.safe = NotParsed
    /\ pOut' = [pOut EXCEPT !.safe = safeParseDate(pCell, engine, tzOffset)]
    /\ UNCHANGED <<envVars, appVars, normVars, pCell>>

RunParseExcelDate ==
    /\ pOut.excel = NotParsed
    /\ pOut' = [pOut EXCEPT !.excel = parseExcelDate(pCell, engine, tzOffset)]
    /\ UNCHANGED <<envVars, appVars, normVars, pCell>>

NextParse == RunSafeParseDate \/ RunParseExcelDate

SpecParse == InitParse /\ [][NextParse]_vars

(***************************************************************************)
(* The view: status badge and statistics.                                  *)
(***************************************************************************)
DueDays == 30

getStatusBadgeStatusFirst(status, restDays) ==
    IF status = "online" /\ restDays > 0
    THEN [variant |-> "default", text |-> "Online"]
    ELSE IF restDays <= 0 THEN [variant |-> "destructive", text |-> "Abgelaufen"]
    ELSE IF restDays <= DueDays THEN [variant |-> "outline", text |-> "Fällig"]
    ELSE [variant |-> "secondary", text |-> status]

\* getStatusBadge: the Badge variant and its text.
getStatusBadge(status, restDays) ==
    IF restDays <= 0 THEN [variant |-> "destructive", text |-> "Abgelaufen"]
    ELSE IF restDays <= DueDays THEN [variant |-> "outline", text |-> "Fällig"]
    ELSE IF status = "online" THEN [variant |-> "default", text |-> "Online"]
    ELSE [variant |-> "secondary", text |-> status]

Count(recs, P(_)) == Cardinality({ i \in 1..Len(recs) : P(recs[i]) })

StatsOnline(r) == r.status = "online" /\ r.restDays > DueDays
StatsDue(r) == r.restDays > 0 /\ r.restDays <= DueDays
StatsExpired(r) == r.restDays <= 0

stats(recs) ==
    [total   |-> Len(recs),
     online  |-> Count(recs, StatsOnline),
     due     |-> Count(recs, StatsDue),
     expired |-> Count(recs, StatsExpired)]

\* dateUtils.safeParseISO of a record's date string
safeParseISO(isoString, tz) ==
    IF isoString.v = "null" THEN NullDate
    ELSE OrNull(UTCDate(isoString.day, isoString.hr, tz))

\* The filter callback of filteredRows with the search term empty, which
\* every name includes.
KeepsRow(row, filteredStatus, tz) ==
    LET due == safeParseISO(row.endDate, tz) IN
    CASE filteredStatus = "Alle"       -> TRUE
      [] filteredStatus = "Fällig"     -> due.v # "null" /\ row.restDays > 0 /\ row.restDays <= DueDays
      [] filteredStatus = "Abgelaufen" -> due.v # "null" /\ row.restDays <= 0
      [] filteredStatus = "Online"     -> row.status = "online" /\ row.restDays > DueDays
      [] OTHER -> TRUE

filteredRows(recs, filteredStatus, tz) ==
    LET Test(row) == KeepsRow(row, filteredStatus, tz) IN SelectSeq(recs, Test)

\* filters: the count shown on each filter button
filters(recs) ==
    [key \in {"Alle", "Online", "Fällig", "Abgelaufen"} |->
        CASE key = "Alle"       -> stats(recs).total
          [] key = "Online"     -> stats(recs).online
          [] key = "Fällig"     -> stats(recs).due
          [] key = "Abgelaufen" -> stats(recs).expired]

(***************************************************************************)
(* Files the user can pick.  A file cannot be read at all, or its bytes    *)
(* are no spreadsheet (XLSX.read throws), or they decode to a sheet.       *)
(***************************************************************************)
File(name, readable, decodes, sheet) ==
    [name |-> name, readable |-> readable, decodes |-> decodes, sheet |-> sheet]

Files ==
    { File("unreadable.xlsx", FALSE, FALSE, << >>),
      File("notes.txt", TRUE, FALSE, << >>),
      File("empty.xlsx", TRUE, TRUE, << >>),
      File("two.xlsx", TRUE, TRUE,
           << Row(Word("Zoom Pro"), Word("online"), Str3("iso", 2024, 3, 1), Num(12)),
              Row(Missing, Missing, Word("not-a-date"), Missing) >>),
      File("one.xlsx", TRUE, TRUE,
           << Row(Word("C"), Word("online"), Str3("iso", 2023, 1, 15), Num(6)) >>),
      File("huge.xlsx", TRUE, TRUE,
           << Row(Missing, Word("offline"), Str3("dot", 1, 6, 2023), Num(12)),
              Row(Word("G"), Word("online"), Str3("iso", 2024, 3, 1), Num(4000000)) >>) }

Decodable(f) == f.readable /\ f.decodes

\* Object.keys of a decoded row, in column order
Keys(row) ==
    (IF row.Name.k # "missing" THEN << "Name" >> ELSE << >>)
    \o (IF row.Status.k # "missing" THEN << "Status" >> ELSE << >>)
    \o (IF row.Startdatum.k # "missing" THEN << "Startdatum" >> ELSE << >>)
    \o (IF row.Laufzeit.k # "missing" THEN << "Laufzeit in M" >> ELSE << >>)

Remove(seq, i) == SubSeq(seq, 1, i - 1) \o SubSeq(seq, i + 1, Len(seq))

ErrorMessage == "Fehler beim Laden der Excel-Datei. Bitte überprüfen Sie das Format."

(***************************************************************************)
(* App, variant 2: handleImportExcel awaits excelUtils.readExcelFile.      *)
(***************************************************************************)
RowsOnResolveMerged(old, processedData) == old \o processedData

\* setRows(processedData)
RowsOnResolve(old, processedData) == processedData

RowsOnRejectCleared(old) == << >>

\* the catch block sets the error and leaves the rows alone
RowsOnReject(old) == old

SelectFile2KeepsError ==
    /\ variant = 2
    /\ ~isLoading
    /\ \E f \in Files : pending' = Append(pending, f) /\ lastSelected' = f
    /\ isLoading' = TRUE
    /\ UNCHANGED <<parseVars, envVars, normVars, error, rows, jsonData, rawExcelData,
                   excelHeaders>>

\* onChange of the file input, which is disabled while isLoading
SelectFile2 ==
    /\ variant = 2
    /\ ~isLoading
    /\ \E f \in Files : pending' = Append(pending, f) /\ lastSelected' = f
    /\ isLoading' = TRUE
    /\ error' = "null"
    /\ UNCHANGED <<parseVars, envVars, normVars, rows, jsonData, rawExcelData, excelHeaders>>

SelectNothing2StartsLoading ==
    /\ variant = 2
    /\ ~isLoading
    /\ isLoading' = TRUE
    /\ error' = "null"
    /\ UNCHANGED <<lastSelected, pending, parseVars, envVars, normVars, rows, jsonData,
                   rawExcelData, excelHeaders>>

\* onChange with no file chosen: if (!file) return
SelectNothing2 ==
    /\ variant = 2
    /\ ~isLoading
    /\ UNCHANGED vars

\* reader.onerror: reject; catch, finally
ReadError2 ==
    /\ variant = 2
    /\ \E i \in 1..Len(pending) :
         /\ ~pending[i].readable
         /\ pending' = Remove(pending, i)
    /\ rows' = RowsOnReject(rows)
    /\ error' = ErrorMessage
    /\ isLoading' = FALSE
    /\ UNCHANGED <<lastSelected, parseVars, envVars, normVars, jsonData, rawExcelData, excelHeaders>>

\* reader.onload, XLSX.read throws: reject; catch, finally
DecodeFails2 ==
    /\ variant = 2
    /\ \E i \in 1..Len(pending) :
         /\ pending[i].readable /\ ~pending[i].decodes
         /\ pending' = Remove(pending, i)
    /\ rows' = RowsOnReject(rows)
    /\ error' = ErrorMessage
    /\ isLoading' = FALSE
    /\ UNCHANGED <<lastSelected, parseVars, envVars, normVars, jsonData, rawExcelData, excelHeaders>>

\* reader.onload, processExcelData throws: reject; catch, finally
ProcessThrows2 ==
    /\ variant = 2
    /\ \E i \in 1..Len(pending), clock \in Clocks :
         /\ Decodable(pending[i])
         /\ ~processExcelData(pending[i].sheet, clock, engine, tzOffset).ok
         /\ jsonData' = pending[i].sheet
         /\ pending' = Remove(pending, i)
    /\ rows' = RowsOnReject(rows)
    /\ error' = ErrorMessage
    /\ isLoading' = FALSE
    /\ UNCHANGED <<lastSelected, parseVars, envVars, normVars, rawExcelData, excelHeaders>>

\* reader.onload: resolve(processedData); setRows, finally
Resolve2 ==
    /\ variant = 2
    /\ \E i \in 1..Len(pending), clock \in Clocks :
         /\ Decodable(pending[i])
         /\ \E processedData \in {processExcelData(pending[i].sheet, clock, engine, tzOffset)} :
              /\ processedData.ok
              /\ rows' = RowsOnResolve(rows, processedData.recs)
         /\ jsonData' = pending[i].sheet
         /\ pending' = Remove(pending, i)
    /\ isLoading' = FALSE
    /\ UNCHANGED <<lastSelected, parseVars, envVars, normVars, error, rawExcelData, excelHeaders>>

(***************************************************************************)
(* App, variant 1: handleImportExcel with the inline reader.onload.        *)
(***************************************************************************)
\* onChange of the file input: a new FileReader is started
SelectFile1 ==
    /\ variant = 1
    /\ Len(pending) < MaxPending
    /\ \E f \in Files : pending' = Append(pending, f) /\ lastSelected' = f
    /\ UNCHANGED <<parseVars, envVars, normVars, rows, isLoading, error, jsonData, rawExcelData,
                   excelHeaders>>

\* onChange with no file chosen: if (!file) return
SelectNothing1 ==
    /\ variant = 1
    /\ UNCHANGED vars

\* the read fails: no onerror handler is set
ReadError1 ==
    /\ variant = 1
    /\ \E i \in 1..Len(pending) :
         /\ ~pending[i].readable
         /\ pending' = Remove(pending, i)
    /\ UNCHANGED <<lastSelected, parseVars, envVars, normVars, rows, isLoading, error, jsonData, rawExcelData,
                   excelHeaders>>

\* reader.onload, XLSX.read throws before any state is set
DecodeFails1 ==
    /\ variant = 1
    /\ \E i \in 1..Len(pending) :
         /\ pending[i].readable /\ ~pending[i].decodes
         /\ pending' = Remove(pending, i)
    /\ UNCHANGED <<lastSelected, parseVars, envVars, normVars, rows, isLoading, error, jsonData, rawExcelData,
                   excelHeaders>>

\* setExcelHeaders only when the sheet has a row
HeadersAfter(old, data) == IF Len(data) > 0 THEN Keys(data[1]) ELSE old

\* reader.onload: setRawExcelData, setExcelHeaders, then data.map throws
ProcessThrows1 ==
    /\ variant = 1
    /\ \E i \in 1..Len(pending), clock \in Clocks :
         /\ Decodable(pending[i])
         /\ ~formatted(pending[i].sheet, clock, engine, tzOffset).ok
         /\ jsonData' = pending[i].sheet
         /\ rawExcelData' = pending[i].sheet
         /\ excelHeaders' = HeadersAfter(excelHeaders, pending[i].sheet)
         /\ pending' = Remove(pending, i)
    /\ UNCHANGED <<lastSelected, parseVars, envVars, normVars, rows, isLoading, error>>

\* reader.onload: setRawExcelData, setExcelHeaders, setRows(formatted)
OnLoad1 ==
    /\ variant = 1
    /\ \E i \in 1..Len(pending), clock \in Clocks :
         /\ Decodable(pending[i])
         /\ \E result \in {formatted(pending[i].sheet, clock, engine, tzOffset)} :
              /\ result.ok
              /\ rows' = RowsOnResolve(rows, result.recs)
         /\ jsonData' = pending[i].sheet
         /\ rawExcelData' = pending[i].sheet
         /\ excelHeaders' = HeadersAfter(excelHeaders, pending[i].sheet)
         /\ pending' = Remove(pending, i)
    /\ UNCHANGED <<lastSelected, parseVars, envVars, normVars, isLoading, error>>

(***************************************************************************)
(* The App.                                                                *)
(***************************************************************************)
Init ==
    /\ variant \in {1, 2}
    /\ tzOffset \in TZSet
    /\ engine \in Engines
    /\ AppInit
    /\ nData = << >>
    /\ nClock = [now |-> NullDate, tickAt |-> 0]
    /\ nOut = NotRun
    /\ ParseInit

Next ==
    \/ SelectFile2
    \/ SelectNothing2
    \/ ReadError2
    \/ DecodeFails2
    \/ ProcessThrows2
    \/ Resolve2
    \/ SelectFile1
    \/ SelectNothing1
    \/ ReadError1
    \/ DecodeFails1
    \/ ProcessThrows1
    \/ OnLoad1

Spec == Init /\ [][Next]_vars

\* A FileReader that was started fires load or error in the end.
ReaderFires ==
    \/ ReadError2 \/ DecodeFails2 \/ ProcessThrows2 \/ Resolve2
    \/ ReadError1 \/ DecodeFails1 \/ ProcessThrows1 \/ OnLoad1

SpecLive == Init /\ [][Next]_vars /\ WF_vars(ReaderFires)


(***************************************************************************)
(* Properties.                                                             *)
(***************************************************************************)
Produced == nOut.done /\ nOut.ok

\* C1: in every record a normalization returns, by either path, endDate is
\* present exactly when startDate is present.
C1_EndDateIffStartDate ==
    Produced =>
        \A i \in 1..Len(nOut.recs) :
            (nOut.recs[i].endDate.v # "null") <=> (nOut.recs[i].startDate.v # "null")

C1_Witness ==
    /\ Produced
    /\ \E i, j \in 1..Len(nOut.recs) :
         /\ nOut.recs[i].startDate.v = "iso" /\ nOut.recs[i].endDate.v = "iso"
         /\ nOut.recs[j].startDate.v = "null" /\ nOut.recs[j].endDate.v = "null"

\* C2: normalizing a sheet of N rows never raises and returns N records.
C2_NeverRaises ==
    nOut.done => (nOut.ok /\ Len(nOut.recs) = Len(nData))

\* C3: when the file of a completing import cannot be read or decoded, the
\* rows stay as they were; in variant 2 the error is set and loading ends.
C3_FailedImportKeepsRows ==
    [][ \A i \in 1..Len(pending) :
          (pending' = Remove(pending, i) /\ ~Decodable(pending[i]))
            => /\ rows' = rows
               /\ variant = 2 => (error' = ErrorMessage /\ ~isLoading') ]_vars

C3_Witness ==
    variant = 2 /\ error = ErrorMessage /\ Len(rows) = 2 /\ ~isLoading
      /\ jsonData = Only({ f \in Files : f.name = "two.xlsx" }).sheet

\* C4: when an import of a decodable file completes and its normalization
\* returns, the rows are exactly that file's records, one per sheet row and
\* named after it, whatever the rows were before.
C4_ImportReplacesRows ==
    [][ \A i \in 1..Len(pending) :
          (pending' = Remove(pending, i) /\ Decodable(pending[i]))
            => \E c \in Clocks :
                 \E r \in {Normalize(variant, pending[i].sheet, c, engine, tzOffset)} :
                   IF r.ok
                   THEN /\ rows' = r.recs
                        /\ Len(rows') = Len(pending[i].sheet)
                        /\ \A k \in 1..Len(rows') :
                             rows'[k].name =
                               IF pending[i].sheet[k].Name.k = "str"
                               THEN pending[i].sheet[k].Name.s ELSE "Unbenannt"
                   ELSE rows' = rows ]_vars

C4_Witness ==
    /\ Len(rows) = 1 /\ rows[1].name = "C"
    /\ jsonData = Only({ f \in Files : f.name = "one.xlsx" }).sheet
    /\ pending = << >>

\* C5: the record at position i of the rows has id i, after any imports.
C5_IdsAreRowPositions ==
    \A i \in 1..Len(rows) : rows[i].id = i

C5_Witness ==
    Len(rows) = 2 /\ rows[1].id = 1 /\ rows[2].id = 2 /\ rows[2].startDate.v = "null"

\* C6: laufzeit is never negative, and is 0 when the duration cell is absent.
C6_DurationNonNegative ==
    Produced =>
        \A i \in 1..Len(nOut.recs) :
            /\ nOut.recs[i].laufzeit >= 0
            /\ nData[i].Laufzeit.k = "missing" => nOut.recs[i].laufzeit = 0

\* C7: a record without startDate has restDays 0 and abgelaufeneMonate 0.
C7_NoStartNoMetrics ==
    Produced =>
        \A i \in 1..Len(nOut.recs) :
            nOut.recs[i].startDate.v = "null"
              => (nOut.recs[i].restDays = 0 /\ nOut.recs[i].abgelaufeneMonate = 0)

C7_Witness ==
    /\ Produced
    /\ \E i \in 1..Len(nOut.recs) :
         nOut.recs[i].startDate.v = "null" /\ nData[i].Startdatum.k = "str"

\* C8: abgelaufeneMonate is never negative, by either path.
C8_ElapsedNonNegative ==
    Produced =>
        \A i \in 1..Len(nOut.recs) : nOut.recs[i].abgelaufeneMonate >= 0

\* C9: the badge shows expired for restDays <= 0, due for 0 < restDays <= 30,
\* online for status "online" with restDays > 30, the status otherwise; the
\* statistics count the same classes, each record in at most one of them.
C9_Classification ==
    Produced =>
        LET recs == nOut.recs
            expired(r) == r.restDays <= 0
            dueSoon(r) == 0 < r.restDays /\ r.restDays <= 30
            activeOnline(r) == r.status = "online" /\ r.restDays > 30
            badge(r) == getStatusBadge(r.status, r.restDays).variant
            n(P(_)) == Cardinality({ i \in 1..Len(recs) : P(recs[i]) })
        IN  /\ \A i \in 1..Len(recs) :
                 /\ badge(recs[i]) = "destructive" <=> expired(recs[i])
                 /\ badge(recs[i]) = "outline" <=> dueSoon(recs[i])
                 /\ badge(recs[i]) = "default" <=> activeOnline(recs[i])
                 /\ badge(recs[i]) = "secondary"
                      <=> ~(expired(recs[i]) \/ dueSoon(recs[i]) \/ activeOnline(recs[i]))
            /\ stats(recs).expired = n(expired)
            /\ stats(recs).due = n(dueSoon)
            /\ stats(recs).online = n(activeOnline)
            /\ stats(recs).online + stats(recs).due + stats(recs).expired
                 <= stats(recs).total

C9_Witness ==
    /\ Produced
    /\ \E i, j \in 1..Len(nOut.recs) :
         /\ nOut.recs[i].status = "online" /\ nOut.recs[i].restDays < 0
         /\ getStatusBadge(nOut.recs[i].status, nOut.recs[i].restDays).variant = "destructive"
         /\ nOut.recs[j].restDays > 0 /\ nOut.recs[j].restDays <= 30

\* C10: at most one import is in flight at any time.
C10_AtMostOneInFlight ==
    Len(pending) <= 1

\* The clock standing still at the instant t while a sheet is normalized.
Frozen(t) == [now |-> t, tickAt |-> 2 * MaxRows]

\* The instants the clock nClock shows while a sheet is normalized.
Instants == {nClock.now, ReadClock(nClock, nClock.tickAt + 1, tzOffset)}

\* C11: every record a normalization returns is the record of one reference
\* instant: restDays and abgelaufeneMonate are both the values at one of the
\* instants the clock showed, whenever the clock was read.
C11_OneReferenceInstant ==
    Produced =>
        \A i \in 1..Len(nOut.recs) :
            \E t \in Instants :
                \E r \in {Normalize(variant, nData, Frozen(t), engine, tzOffset)} :
                    r.ok /\ r.recs[i] = nOut.recs[i]

\* What each parser returned, of those that have run.
Parsed == {pOut.safe, pOut.excel} \ {NotParsed}

\* A cell that holds no date at all: absent, empty, white space, Invalid Date.
NoDateCell(cell) ==
    \/ cell.k = "missing"
    \/ cell.k = "str" /\ cell.f \in {"empty", "blank"}
    \/ cell.k = "date" /\ cell.f = "invalid"

\* C12: safeParseDate and parseExcelDate return, for every cell value, a valid
\* date or null, never an Invalid Date and never an exception; they return
\* null for an absent, empty or blank cell and for an Invalid Date.
C12_ParserTotal ==
    \A date \in Parsed :
        /\ date.v \in {"valid", "null"}
        /\ NoDateCell(pCell) => date = NullDate

C12_Witness ==
    /\ pOut.safe = NullDate /\ pOut.excel = NullDate
    /\ pCell \in {Blank, Bool(TRUE), Num(Infinity), Str3("iso", 2024, 13, 1)}

\* C13: a number n >= 1 in a date cell is read, by either parser, as the
\* calendar day n days after 1899-12-30.
C13_SerialEpoch ==
    (pCell.k = "num" /\ pCell.a >= 1 /\ pCell.a # Infinity) =>
        \A date \in Parsed :
            date.v = "valid" /\ date.day = Day(1899, 12, 30) + pCell.a

\* The day a date string stands for under the first layout of the list
\* yyyy-MM-dd, dd.MM.yyyy, MM/dd/yyyy, dd/MM/yyyy, yyyy/MM/dd that has the
\* string's shape and gives a real calendar date: << day >>, or << >>.
DayByListOrder(cell) ==
    CASE cell.f = "iso" /\ RealDate(cell.a, cell.b, cell.c)    -> << Day(cell.a, cell.b, cell.c) >>
      [] cell.f = "dot" /\ RealDate(cell.c, cell.b, cell.a)    -> << Day(cell.c, cell.b, cell.a) >>
      [] cell.f = "slash" /\ RealDate(cell.c, cell.a, cell.b)  -> << Day(cell.c, cell.a, cell.b) >>
      [] cell.f = "slash" /\ RealDate(cell.c, cell.b, cell.a)  -> << Day(cell.c, cell.b, cell.a) >>
      [] cell.f = "yslash" /\ RealDate(cell.a, cell.b, cell.c) -> << Day(cell.a, cell.b, cell.c) >>
      [] OTHER -> << >>

\* C14: a date string is read under the first layout of the list that fits
\* it: 05/04/2024 as the 4th of May, 13/04/2024 as the 13th of April.
C14_FirstLayoutWins ==
    (pCell.k = "str" /\ DayByListOrder(pCell) # << >>) =>
        \A date \in Parsed :
            date = [v |-> "valid", day |-> DayByListOrder(pCell)[1], hr |-> 0]

\* The Date object an ISO string of a record stands for, in local time.
DateOf(iso) == UTCDate(iso.day, iso.hr, tzOffset)

\* Hours from the instant b to the instant a, and whole days towards zero.
HoursFrom(b, a) == (a.day - b.day) * HoursPerDay + (a.hr - b.hr)
WholeDays(h) == IF h >= 0 THEN h \div HoursPerDay ELSE -((-h) \div HoursPerDay)

June1 == [v |-> "valid", day |-> Day(2024, 6, 1), hr |-> 0]

MinOf(a, b) == IF a <= b THEN a ELSE b

\* The calendar date `months` months after the calendar date c, the day of
\* the month cut down to the length of the target month.
MonthsOn(c, months) ==
    LET total == c.y * 12 + (c.m - 1) + months
        y == total \div 12
        m == (total % 12) + 1
    IN  [y |-> y, m |-> m, d |-> MinOf(c.d, DaysInMonth(y, m))]

\* C16: the endDate of a record with a startDate is the startDate moved on by
\* laufzeit calendar months, at the same time of day, the day cut down to the
\* last day of a shorter month: 2024-01-31 plus 1 month is 2024-02-29.
C16_CalendarMonths ==
    Produced =>
        \A i \in 1..Len(nOut.recs) :
            LET rec == nOut.recs[i] IN
            rec.startDate.v = "iso" =>
                /\ rec.endDate.v = "iso"
                /\ Civil(DateOf(rec.endDate).day)
                     = MonthsOn(Civil(DateOf(rec.startDate).day), rec.laufzeit)
                /\ DateOf(rec.endDate).hr = DateOf(rec.startDate).hr
                /\ ( nData[i].Startdatum = Str3("iso", 2024, 1, 31)
                       /\ nData[i].Laufzeit = Num(1) )
                    => Civil(DateOf(rec.endDate).day) = [y |-> 2024, m |-> 2, d |-> 29]

C16_Witness ==
    /\ Produced
    /\ \E i, j \in 1..Len(nOut.recs) :
         /\ nData[i].Startdatum = Str3("iso", 2024, 1, 31) /\ nData[i].Laufzeit = Num(1)
         /\ DateOf(nOut.recs[i].endDate).day = Day(2024, 2, 29)
         /\ nOut.recs[j].startDate.v = "iso" /\ nOut.recs[j].laufzeit = 12

\* C17: a valid ISO date string, parsed and written back with toISOString,
\* shows the calendar day that was written in it, in every timezone.
C17_ISORoundTrip ==
    (pCell.k = "str" /\ pCell.f \in {"iso", "isoT"} /\ RealDate(pCell.a, pCell.b, pCell.c)) =>
        \A date \in Parsed :
            /\ date.v = "valid"
            /\ toISOString(date, tzOffset).day = Day(pCell.a, pCell.b, pCell.c)

\* C18: in the App with the error message, starting an import clears the
\* message, an import that fails sets it, and one that succeeds leaves the
\* screen without it, next to the records of that import.
C18_ErrorOfLastImport ==
    [][ variant = 2 =>
          /\ Len(pending') > Len(pending) => error' = "null"
          /\ \A i \in 1..Len(pending) :
                pending' = Remove(pending, i) =>
                  \E c \in Clocks :
                    \E r \in {processExcelData(pending[i].sheet, c, engine, tzOffset)} :
                      IF Decodable(pending[i]) /\ r.ok
                      THEN error' = "null" /\ rows' = r.recs
                      ELSE error' = ErrorMessage ]_vars

C18_Witness ==
    /\ variant = 2 /\ isLoading /\ error = "null" /\ Len(rows) = 1
    /\ jsonData = Only({ f \in Files : f.name = "huge.xlsx" }).sheet

\* C19: in the first App variant the records, the raw rows and the headers
\* belong together: one record per raw row, and the headers are the keys of
\* the first raw row, none when there is no raw row.
C19_RawViewInStep ==
    variant = 1 =>
        /\ Len(rows) = Len(rawExcelData)
        /\ excelHeaders = IF Len(rawExcelData) > 0 THEN Keys(rawExcelData[1]) ELSE << >>

\* C20: the count shown on each filter is the number of records listed under
\* that filter, and a record without endDate is expired for the counter, the
\* badge and the Abgelaufen filter alike.
C20_CountsMatchLists ==
    Produced =>
        /\ \A key \in DOMAIN filters(nOut.recs) :
              filters(nOut.recs)[key] = Len(filteredRows(nOut.recs, key, tzOffset))
        /\ \A i \in 1..Len(nOut.recs) :
              LET rec == nOut.recs[i] IN
              rec.endDate.v = "null" =>
                /\ StatsExpired(rec) <=> KeepsRow(rec, "Abgelaufen", tzOffset)
                /\ StatsExpired(rec)
                     <=> getStatusBadge(rec.status, rec.restDays).variant = "destructive"

\* C21: once no read is pending, the rows are the records of the file chosen
\* last, when that file decodes and its normalization returns.
C21_LastSelectedWins ==
    (pending = << >> /\ Decodable(lastSelected)) =>
        \E c \in Clocks :
            \E r \in {Normalize(variant, lastSelected.sheet, c, engine, tzOffset)} :
                r.ok => rows = r.recs

\* The calendar dates a date string can stand for, component by component.
Written(cell) ==
    CASE cell.f = "iso"   -> { [y |-> cell.a, m |-> cell.b, d |-> cell.c] }
      [] cell.f = "dot"   -> { [y |-> cell.c, m |-> cell.b, d |-> cell.a] }
      [] cell.f = "slash" -> { [y |-> cell.c, m |-> cell.a, d |-> cell.b],
                               [y |-> cell.c, m |-> cell.b, d |-> cell.a] }
      [] OTHER -> {}

\* C22: for a string dddd-dd-dd, dd.dd.dddd or dd/dd/dddd either parser
\* returns null or the date with the very year, month and day written in
\* the string; a day or month out of range is never carried over.
C22_NoRollover ==
    (pCell.k = "str" /\ pCell.f \in {"iso", "dot", "slash"}) =>
        \A date \in Parsed :
            \/ date = NullDate
            \/ date.v = "valid" /\ Civil(date.day) \in Written(pCell)

\* C23: in the App with the loading flag, the flag is set exactly while a
\* read is pending, so choosing no file leaves it unset, and every import
\* that was started ends with the flag unset, read or not.
C23_LoadingWhilePending ==
    /\ [](variant = 2 => (isLoading <=> Len(pending) > 0))
    /\ (variant = 2 /\ isLoading) ~> (~isLoading /\ pending = << >>)

C23_Witness ==
    /\ variant = 2 /\ ~isLoading /\ pending = << >>
    /\ lastSelected.name = "notes.txt" /\ error = ErrorMessage /\ Len(rows) = 2

==========================================================================
